---- MODULE Spec2Model ----
(***************************************************************************)
(* Gibbs sampling on a synthetic Ising model (src/GibbsSamplingIsing.cpp). *)
(*                                                                         *)
(* The program generates a graph, draws a random +1/-1 spin state,         *)
(* partitions the vertices among the threads and then, N_ITERATIONS times, *)
(* prints the state and lets every thread resample the vertices of its     *)
(* partition (an OpenMP parallel for, joined by its implicit barrier).     *)
(*                                                                         *)
(* Vectors indexed by a vertex (state) are functions on 0..n-1; adjacency  *)
(* lists and the access pattern are sequences, so the C++ index k is the   *)
(* TLA+ index k+1.  A std::map is a function whose DOMAIN is its key set.  *)
(***************************************************************************)
EXTENDS Integers, Sequences, FiniteSets, TLC

VARIABLES
    pc,               \* position of the main thread
    n,                \* the value of the macro N in this build
    n_threads,        \* the value of the macro N_THREADS in this build
    g,                \* Graph g (map<int, vector<int> >)
    state,            \* vector<int> state
    access_pattern,   \* AccessPattern: [thread][batch][state index]
    n_batches,        \* main's n_batches
    iter,             \* main's loop counter
    th,               \* per thread: its loop counters and UpdateState locals
    cout,             \* what the last step wrote to the console
    i, j,             \* loop counters of the running function
    n_tries,          \* GenerateRandomIsingModelGraph's retry counter
    g_ret,            \* history: the graph as its generator returned it
    n_updates,        \* history: completed UpdateState calls per vertex
    call              \* history: the arguments of a direct UpdateState call

vars == <<pc, n, n_threads, g, state, access_pattern, n_batches, iter, th,
          cout, i, j, n_tries, g_ret,
          n_updates, call>>

------------------------------------------------------------------------------
(* Build parameters.  The file ships N = 100*100, N_THREADS = 1 and          *)
(* N_ITERATIONS = 10000.  The model sets the same macros to small values:   *)
(* N to the square of Side, N_ITERATIONS to 2, and N_THREADS to 2, the      *)
(* smallest team in which the parallel for has threads to interleave.       *)
(* HOGWILD, DELTA and BETA keep their values.  RAND_MAX is glibc's.         *)

Side == 2
N == Side * Side
N_THREADS == 2
N_ITERATIONS == 2
HOGWILD == 1
DELTA == 4
RAND_MAX == 2147483647

MAX_EDGES(nn) == nn * nn
MAX_EDGE_INSERTION_TRIES(nn) == nn * nn

------------------------------------------------------------------------------
(* std::map and std::vector.                                                *)

EmptyMap == [k \in {} |-> <<>>]

MapSet(m, k, v) == [x \in (DOMAIN m) \cup {k} |-> IF x = k THEN v ELSE m[x]]

\* m[k] of a non-const std::map: a missing key is inserted with an empty vector.
MapIndex(m, k) == IF k \in DOMAIN m THEN m ELSE MapSet(m, k, <<>>)

PushBack(m, k, v) == LET m1 == MapIndex(m, k) IN [m1 EXCEPT ![k] = Append(@, v)]

\* vector<int> state(N): N value-initialised entries.
ZeroVector(nn) == [k \in 0..(nn - 1) |-> 0]

\* (int)sqrt(N)
Isqrt(x) == CHOOSE r \in 0..x : r * r <= x /\ x < (r + 1) * (r + 1)

Min(a, b) == IF a < b THEN a ELSE b
Max(a, b) == IF a > b THEN a ELSE b

------------------------------------------------------------------------------
(* Generate2DIsingModelGraph.                                               *)

ErrDelta == "Error: For 2D Ising model delta must be 4."
ErrSquare == "Error: For 2D Ising model N must be a square."
ErrState == "Something went wrong..."

ConnectCell_wrap(gg, length, ci, cj) ==
    LET cur_index == ci * length + cj
        bottom_neighbor == (ci + 1) * length + cj
        right_neighbor == ci * length + cj + 1
        g1 == IF ci + 1 < length
              THEN PushBack(PushBack(gg, cur_index, bottom_neighbor),
                            bottom_neighbor, cur_index)
              ELSE gg
    IN  IF cj + 1 <= length
        THEN PushBack(PushBack(g1, cur_index, right_neighbor),
                      right_neighbor, cur_index)
        ELSE g1

\* The body of the inner loop for the cell (ci, cj) of the lattice.
ConnectCell(gg, length, ci, cj) ==
    LET cur_index == ci * length + cj
        bottom_neighbor == (ci + 1) * length + cj
        right_neighbor == ci * length + cj + 1
        g1 == IF ci + 1 < length
              THEN PushBack(PushBack(gg, cur_index, bottom_neighbor),
                            bottom_neighbor, cur_index)
              ELSE gg
    IN  IF cj + 1 < length
        THEN PushBack(PushBack(g1, cur_index, right_neighbor),
                      right_neighbor, cur_index)
        ELSE g1

\* The two checks at the head of the function; exit(0) on failure.
Generate2DCheck ==
    /\ pc = "g2d_check"
    /\ IF DELTA # 4
       THEN /\ cout' = <<ErrDelta>>
            /\ pc' = "exit"
            /\ UNCHANGED <<g, i, j>>
       ELSE IF Isqrt(n) * Isqrt(n) # n
       THEN /\ cout' = <<ErrSquare>>
            /\ pc' = "exit"
            /\ UNCHANGED <<g, i, j>>
       ELSE /\ cout' = <<>>
            /\ g' = EmptyMap
            /\ i' = 0
            /\ j' = 0
            /\ pc' = "g2d_init"
    /\ UNCHANGED <<n, n_threads, state, access_pattern, n_batches, iter, th,
                   n_tries, g_ret,
                   n_updates, call>>

\* for (i = 0; i < N; i++) g[i] = vector<int>();
Generate2DInit ==
    /\ pc = "g2d_init"
    /\ IF i < n
       THEN /\ g' = MapSet(g, i, <<>>)
            /\ i' = i + 1
            /\ pc' = pc
       ELSE /\ g' = g
            /\ i' = 0
            /\ pc' = "g2d_connect"
    /\ j' = 0
    /\ cout' = <<>>
    /\ UNCHANGED <<n, n_threads, state, access_pattern, n_batches, iter, th,
                   n_tries, g_ret,
                   n_updates, call>>

\* One pass of the inner loop, or the step of the outer loop, or the return.
Generate2DConnect ==
    /\ pc = "g2d_connect"
    /\ LET length == Isqrt(n)
       IN  IF i < length /\ j < length
           THEN /\ g' = ConnectCell(g, length, i, j)
                /\ i' = i
                /\ j' = j + 1
                /\ pc' = pc
                /\ g_ret' = g_ret
           ELSE IF i < length
           THEN /\ g' = g
                /\ i' = i + 1
                /\ j' = 0
                /\ pc' = pc
                /\ g_ret' = g_ret
           ELSE /\ g' = g
                /\ i' = 0
                /\ j' = 0
                /\ pc' = "g2d_done"
                /\ g_ret' = g
    /\ cout' = <<>>
    /\ UNCHANGED <<n, n_threads, state, access_pattern, n_batches, iter, th,
                   n_tries, n_updates, call>>

\* The graph the function returns for a square nn, computed at once.
RECURSIVE Lattice(_, _, _)
Lattice(gg, length, cell) ==
    IF cell >= length * length
    THEN gg
    ELSE Lattice(ConnectCell(gg, length, cell \div length, cell % length),
                 length, cell + 1)

Generate2DIsingModelGraph(nn) ==
    Lattice([k \in 0..(nn - 1) |-> <<>>], Isqrt(nn), 0)

------------------------------------------------------------------------------
(* PrintGraphStatistics, GenerateIsingState, PartitionDatapointsForHogwild. *)

RECURSIVE DegreeStats(_, _, _)
\* <<g, min_degree, max_degree, sum of degrees>> after the loop from vertex k
\* on, entered with acc.
DegreeStats(nn, k, acc) ==
    IF k >= nn
    THEN acc
    ELSE LET g1 == MapIndex(acc[1], k)
             d == Len(g1[k])
         IN  DegreeStats(nn, k + 1,
                         <<g1, Min(acc[2], d), Max(acc[3], d), acc[4] + d>>)

\* main: PrintGraphStatistics(g); vector<int> state = GenerateIsingState();
PrintGraphStatistics ==
    /\ pc = "g2d_done"
    /\ LET stats == DegreeStats(n, 0, <<g, DELTA + 1, 0, 0>>)
       IN  /\ g' = stats[1]
           /\ cout' = <<"Graph statistics:", stats[2], stats[3], stats[4], n>>
    /\ state' = ZeroVector(n)
    /\ i' = 0
    /\ pc' = "gen_state"
    /\ UNCHANGED <<n, n_threads, access_pattern, n_batches, iter, th, j,
                   n_tries, g_ret,
                   n_updates, call>>

\* One pass of the loop of GenerateIsingState: rand() % 2 picks the spin.
SpinOfDraw(r) == IF r % 2 = 0 THEN 1 ELSE -1

PartitionThread_noRemainder(pattern, nn, nt, thread) ==
    LET n_datapoints_per_thread == nn \div nt
        start == n_datapoints_per_thread * thread
        end == n_datapoints_per_thread * (thread + 1)
        batch0 == [k \in 1..Max(end - start, 0) |-> start + k - 1]
    IN  [pattern EXCEPT ![thread + 1] = <<batch0>>]

PartitionThread_allToEnd(pattern, nn, nt, thread) ==
    LET n_datapoints_per_thread == nn \div nt
        start == n_datapoints_per_thread * thread
        end == nn
        batch0 == [k \in 1..Max(end - start, 0) |-> start + k - 1]
    IN  [pattern EXCEPT ![thread + 1] = <<batch0>>]

PartitionThread_reversed(pattern, nn, nt, thread) ==
    LET n_datapoints_per_thread == nn \div nt
        start == n_datapoints_per_thread * thread
        end == IF thread = nt - 1
               THEN nn
               ELSE n_datapoints_per_thread * (thread + 1)
        batch0 == [k \in 1..Max(end - start, 0) |-> end - k]
    IN  [pattern EXCEPT ![thread + 1] = <<batch0>>]

\* pattern[thread] after the pass of the outer loop for `thread`.
PartitionThread(pattern, nn, nt, thread) ==
    LET n_datapoints_per_thread == nn \div nt
        start == n_datapoints_per_thread * thread
        end == IF thread = nt - 1
               THEN nn
               ELSE n_datapoints_per_thread * (thread + 1)
        batch0 == [k \in 1..Max(end - start, 0) |-> start + k - 1]
    IN  [pattern EXCEPT ![thread + 1] = <<batch0>>]

RECURSIVE PartitionFrom(_, _, _, _)
PartitionFrom(pattern, nn, nt, thread) ==
    IF thread >= nt
    THEN pattern
    ELSE PartitionFrom(PartitionThread(pattern, nn, nt, thread), nn, nt,
                       thread + 1)

\* The access pattern the function leaves in an empty `pattern`.
PartitionDatapointsForHogwild(nn, nt) ==
    PartitionFrom([t \in 1..nt |-> <<>>], nn, nt, 0)

GenerateIsingState ==
    /\ pc = "gen_state"
    /\ IF i < n
       THEN /\ \E r \in {0, 1} : state' = [state EXCEPT ![i] = SpinOfDraw(r)]
            /\ i' = i + 1
            /\ pc' = pc
            /\ UNCHANGED <<access_pattern, n_batches>>
       ELSE /\ state' = state
            /\ i' = 0
            /\ IF HOGWILD # 0
               THEN /\ pc' = "partition"
                    /\ access_pattern' = [t \in 1..n_threads |-> <<>>]
                    /\ n_batches' = 0
               ELSE /\ pc' = "loop"
                    /\ access_pattern' = <<>>
                    /\ n_batches' = 0
    /\ cout' = <<>>
    /\ UNCHANGED <<n, n_threads, g, iter, th, j, n_tries, g_ret, n_updates, call>>

\* One pass of the loop over the threads, or the return of 1 (one batch).
Partition ==
    /\ pc = "partition"
    /\ IF i < n_threads
       THEN /\ access_pattern' = PartitionThread(access_pattern, n, n_threads, i)
            /\ i' = i + 1
            /\ pc' = pc
            /\ n_batches' = n_batches
       ELSE /\ access_pattern' = access_pattern
            /\ i' = 0
            /\ pc' = "loop"
            /\ n_batches' = 1
    /\ cout' = <<>>
    /\ UNCHANGED <<n, n_threads, g, state, iter, th, j, n_tries, g_ret, n_updates, call>>

------------------------------------------------------------------------------
(* Print2DState and PrintState.  A result is [exit, out]: whether the call  *)
(* ended in exit(0), and what it wrote.  state_string is a sequence of the  *)
(* characters appended to it.                                               *)

ClearScreen == "system(clear)"

RECURSIVE Render2D_lenient(_, _, _, _)
Render2D_lenient(st, length, k, state_string) ==
    IF k >= length * length
    THEN <<TRUE, state_string>>
    ELSE LET v == st[k]
             eol == IF k % length = length - 1 THEN <<"\n">> ELSE <<>>
         IN  IF v = 1
             THEN Render2D_lenient(st, length, k + 1, state_string \o <<"1">> \o eol)
             ELSE Render2D_lenient(st, length, k + 1, state_string \o <<"0">> \o eol)

RECURSIVE Render2D(_, _, _, _)
\* The double loop from cell k on; <<FALSE, _>> when an entry is neither 1 nor -1.
Render2D(st, length, k, state_string) ==
    IF k >= length * length
    THEN <<TRUE, state_string>>
    ELSE LET v == st[k]
             eol == IF k % length = length - 1 THEN <<"\n">> ELSE <<>>
         IN  IF v = 1
             THEN Render2D(st, length, k + 1, state_string \o <<"1">> \o eol)
             ELSE IF v = -1
             THEN Render2D(st, length, k + 1, state_string \o <<"0">> \o eol)
             ELSE <<FALSE, state_string>>

Print2DState(st, nn) ==
    IF DELTA # 4
    THEN [exit |-> TRUE, out |-> <<ErrDelta>>]
    ELSE IF Isqrt(nn) * Isqrt(nn) # nn
    THEN [exit |-> TRUE, out |-> <<ErrSquare>>]
    ELSE LET r == Render2D(st, Isqrt(nn), 0, <<>>)
         IN  IF r[1]
             THEN [exit |-> FALSE, out |-> <<ClearScreen, r[2]>>]
             ELSE [exit |-> TRUE, out |-> <<ErrState>>]

RECURSIVE Render(_, _, _)
Render(st, k, state_string) ==
    IF k >= Cardinality(DOMAIN st)
    THEN <<TRUE, state_string>>
    ELSE IF st[k] = 1
    THEN Render(st, k + 1, state_string \o <<"1">>)
    ELSE IF st[k] = -1
    THEN Render(st, k + 1, state_string \o <<"0">>)
    ELSE <<FALSE, state_string>>

PrintState(st) ==
    LET r == Render(st, 0, <<>>)
    IN  IF r[1]
        THEN [exit |-> FALSE, out |-> <<r[2]>>]
        ELSE [exit |-> TRUE, out |-> <<ErrState>>]

------------------------------------------------------------------------------
(* UpdateState.  BETA = 1.29.  selection = rand() / RAND_MAX is compared    *)
(* with prob_1 = p1 / (p1 + p2), p1 = exp(BETA * product_with_1) and        *)
(* p2 = exp(BETA * product_with_neg_1).  LargestDrawFor1[d + 13] is the     *)
(* largest value of rand() with selection <= prob_1 in IEEE double          *)
(* arithmetic when product_with_1 - product_with_neg_1 = d, -12 <= d <= 12. *)

LargestDrawFor1 ==
    << 406, 1476, 5364, 19487, 70794, 257157, 933902, 3388789, 12259814,
       43877788, 151261727, 463540381, 1073741823, 1683943265, 1996221919,
       2103605858, 2135223832, 2144094857, 2146549744, 2147226489, 2147412852,
       2147464159, 2147478282, 2147482170, 2147483240 >>

Select_zero(product_with_1, product_with_neg_1, r) ==
    LET d == product_with_1 - product_with_neg_1
        dd == Max(-12, Min(12, d))
    IN  IF r <= LargestDrawFor1[dd + 13] THEN 1 ELSE 0

\* The branch taken by  if (selection <= prob_1)  for the draw r = rand().
Select(product_with_1, product_with_neg_1, r) ==
    LET d == product_with_1 - product_with_neg_1
        dd == Max(-12, Min(12, d))
    IN  IF r <= LargestDrawFor1[dd + 13] THEN 1 ELSE -1

\* Values of rand() on both sides of every threshold a vertex of degree at
\* most DELTA can meet, and the two ends of its range.
Draws ==
    {0, RAND_MAX} \cup
    UNION {{LargestDrawFor1[2 * s + 13], LargestDrawFor1[2 * s + 13] + 1} :
           s \in (-DELTA)..DELTA}

NeighborSpin_self(gg, st, index, k) == st[gg[index][k + 1]] * st[index]

\* The spin of the k-th entry (from 0) of the adjacency list of index.
NeighborSpin(gg, st, index, k) == st[gg[index][k + 1]]

RECURSIVE ProductWith1(_, _, _, _)
\* product_with_1 after the first k passes of the loop.
ProductWith1(gg, st, index, k) ==
    IF k = 0
    THEN 0
    ELSE ProductWith1(gg, st, index, k - 1) + NeighborSpin(gg, st, index, k - 1)

RECURSIVE ProductWithNeg1(_, _, _, _)
ProductWithNeg1(gg, st, index, k) ==
    IF k = 0
    THEN 0
    ELSE ProductWithNeg1(gg, st, index, k - 1)
         + NeighborSpin(gg, st, index, k - 1) * (-1)

\* The store of lines 220-225: state[index] = 1 or state[index] = -1.
StoreSpin_shift(st, index, spin) ==
    [st EXCEPT ![(index + 1) % Cardinality(DOMAIN st)] = spin]

StoreSpin(st, index, spin) == [st EXCEPT ![index] = spin]

\* The state vector after a call that nothing interleaves with.
UpdateState(gg, st, index, r) ==
    LET g1 == MapIndex(gg, index)
        product_with_1 == ProductWith1(g1, st, index, Len(g1[index]))
        product_with_neg_1 == ProductWithNeg1(g1, st, index, Len(g1[index]))
    IN  StoreSpin(st, index, Select(product_with_1, product_with_neg_1, r))

------------------------------------------------------------------------------
(* The loop of main and the parallel for.                                   *)

RECURSIVE Seek(_, _, _, _, _)
\* The loop counters <<batch, to_update>> of thread t at its next call of
\* UpdateState, from <<b, u>> on; batch = nb when its loops are over.
Seek(pattern, nb, t, b, u) ==
    IF b >= nb
    THEN <<b, 0>>
    ELSE IF u < Len(pattern[t + 1][b + 1])
    THEN <<b, u>>
    ELSE Seek(pattern, nb, t, b + 1, 0)

ThreadAt(pos) ==
    [batch |-> pos[1], to_update |-> pos[2], i |-> 0,
     product_with_1 |-> 0, product_with_neg_1 |-> 0]

NoThreads == <<>>

Threads == DOMAIN th

Running(t) == th[t].batch < n_batches

index_to_update(t) == access_pattern[t + 1][th[t].batch + 1][th[t].to_update + 1]

\* The head of an iteration: the loop test, Print2DState(state), and the
\* start of the parallel region with one thread per value of `thread`.
Iterate ==
    /\ pc = "loop"
    /\ IF iter < N_ITERATIONS
       THEN LET r == Print2DState(state, n)
            IN  /\ cout' = r.out
                /\ IF r.exit
                   THEN /\ pc' = "exit"
                        /\ th' = th
                   ELSE /\ pc' = "sweep"
                        /\ th' = [t \in 0..(n_threads - 1) |->
                                    ThreadAt(Seek(access_pattern, n_batches, t, 0, 0))]
       ELSE /\ cout' = <<>>
            /\ pc' = "done"
            /\ th' = th
    /\ UNCHANGED <<n, n_threads, g, state, access_pattern, n_batches, iter,
                   i, j, n_tries, g_ret,
                   n_updates, call>>

\* One pass of the loop of UpdateState in thread t: the read of a neighbour.
ReadNeighbor(t) ==
    /\ pc = "sweep"
    /\ Running(t)
    /\ LET index == index_to_update(t)
           g1 == MapIndex(g, index)
       IN  /\ th[t].i < Len(g1[index])
           /\ g' = g1
           /\ th' = [th EXCEPT
                  ![t].i = @ + 1,
                  ![t].product_with_1 = @ + NeighborSpin(g1, state, index, th[t].i),
                  ![t].product_with_neg_1 =
                      @ + NeighborSpin(g1, state, index, th[t].i) * (-1)]
    /\ cout' = <<>>
    /\ UNCHANGED <<pc, n, n_threads, state, access_pattern, n_batches, iter,
                   i, j, n_tries, g_ret,
                   n_updates, call>>

\* The spin thread t stores once its loop over the neighbours is over.
NewSpin(t, r) == Select(th[t].product_with_1, th[t].product_with_neg_1, r)

\* The rest of UpdateState in thread t: the draw and the store, then the
\* step of the thread's loops to its next call.
WriteState(t) ==
    /\ pc = "sweep"
    /\ Running(t)
    /\ LET index == index_to_update(t)
           g1 == MapIndex(g, index)
       IN  /\ th[t].i >= Len(g1[index])
           /\ g' = g1
           /\ \E spin \in {NewSpin(t, r) : r \in Draws} :
                  state' = StoreSpin(state, index, spin)
           /\ n_updates' = [n_updates EXCEPT ![index] = @ + 1]
           /\ th' = [th EXCEPT ![t] =
                  ThreadAt(Seek(access_pattern, n_batches, t, th[t].batch,
                                th[t].to_update + 1))]
    /\ cout' = <<>>
    /\ UNCHANGED <<pc, n, n_threads, access_pattern, n_batches, iter,
                   i, j, n_tries, g_ret, call>>

AllJoined_some == \E t \in Threads : ~Running(t)

\* The end of the parallel region: every thread's loops are over.
AllJoined == \A t \in Threads : ~Running(t)

Join ==
    /\ pc = "sweep"
    /\ AllJoined
    /\ iter' = iter + 1
    /\ pc' = "loop"
    /\ th' = NoThreads
    /\ cout' = <<>>
    /\ UNCHANGED <<n, n_threads, g, state, access_pattern, n_batches,
                   i, j, n_tries, g_ret,
                   n_updates, call>>

------------------------------------------------------------------------------
(* The program: main from its first statement.                              *)

NoCall == <<>>

Init ==
    /\ pc = "g2d_check"
    /\ n = N
    /\ n_threads = N_THREADS
    /\ g = EmptyMap
    /\ state = <<>>
    /\ access_pattern = <<>>
    /\ n_batches = 0
    /\ iter = 0
    /\ th = NoThreads
    /\ cout = <<>>
    /\ i = 0
    /\ j = 0
    /\ n_tries = 0
    /\ g_ret = EmptyMap
    /\ n_updates = [v \in 0..(N - 1) |-> 0]
    /\ call = NoCall

Next ==
    \/ Generate2DCheck
    \/ Generate2DInit
    \/ Generate2DConnect
    \/ PrintGraphStatistics
    \/ GenerateIsingState
    \/ Partition
    \/ Iterate
    \/ \E t \in Threads : ReadNeighbor(t)
    \/ \E t \in Threads : WriteState(t)
    \/ Join

Spec == Init /\ [][Next]_vars

------------------------------------------------------------------------------
(* GenerateRandomIsingModelGraph.                                           *)

InvalidEdge_first(gg, v1, v2) ==
    \/ v1 = v2
    \/ Len(MapIndex(gg, v1)[v1]) >= DELTA

\* The condition of the while loop, with the || evaluated left to right.
InvalidEdge(gg, v1, v2) ==
    \/ v1 = v2
    \/ Len(MapIndex(gg, v1)[v1]) >= DELTA
    \/ Len(MapIndex(gg, v2)[v2]) >= DELTA

InsertEdge(gg, v1, v2) == PushBack(PushBack(gg, v1, v2), v2, v1)

\* for (i = 0; i < N; i++) g[i] = vector<int>();
GenerateRandomInit ==
    /\ pc = "gr_init"
    /\ IF i < n
       THEN /\ g' = MapSet(g, i, <<>>)
            /\ i' = i + 1
            /\ pc' = pc
       ELSE /\ g' = g
            /\ i' = 0
            /\ pc' = "gr_for"
    /\ cout' = <<>>
    /\ UNCHANGED <<n, n_threads, state, access_pattern, n_batches, iter, th, j,
                   n_tries, g_ret,
                   n_updates, call>>

\* The head of the for loop: its test, the two draws, n_tries = 0 and the
\* first test of the while loop; a valid edge is inserted at once.
GenerateRandomFor ==
    /\ pc = "gr_for"
    /\ IF i < MAX_EDGES(n)
       THEN /\ n_tries' = 0
            /\ g_ret' = g_ret
            /\ \E random_vertex_1 \in 0..(n - 1), random_vertex_2 \in 0..(n - 1) :
                  IF InvalidEdge(g, random_vertex_1, random_vertex_2)
                  THEN /\ pc' = "gr_while"
                       /\ UNCHANGED <<g, i>>
                  ELSE /\ g' = InsertEdge(g, random_vertex_1, random_vertex_2)
                       /\ i' = i + 1
                       /\ pc' = pc
       ELSE /\ pc' = "gr_done"
            /\ g_ret' = g
            /\ UNCHANGED <<g, i, n_tries>>
    /\ cout' = <<>>
    /\ UNCHANGED <<n, n_threads, state, access_pattern, n_batches, iter, th, j,
                   n_updates, call>>

\* One pass of the body of the while loop (the two draws, the return when
\* n_tries++ >= MAX_EDGE_INSERTION_TRIES) and the test that follows it.
GenerateRandomWhile ==
    /\ pc = "gr_while"
    /\ n_tries' = n_tries + 1
    /\ \E random_vertex_1 \in 0..(n - 1), random_vertex_2 \in 0..(n - 1) :
          IF n_tries >= MAX_EDGE_INSERTION_TRIES(n)
          THEN /\ pc' = "gr_done"
               /\ g_ret' = g
               /\ UNCHANGED <<g, i>>
          ELSE IF InvalidEdge(g, random_vertex_1, random_vertex_2)
          THEN /\ pc' = pc
               /\ UNCHANGED <<g, i, g_ret>>
          ELSE /\ g' = InsertEdge(g, random_vertex_1, random_vertex_2)
               /\ i' = i + 1
               /\ pc' = "gr_for"
               /\ g_ret' = g_ret
    /\ cout' = <<>>
    /\ UNCHANGED <<n, n_threads, state, access_pattern, n_batches, iter, th, j,
                   n_updates, call>>

MaxRandomN == 3

RandomInit ==
    /\ pc = "gr_init"
    /\ n \in 1..MaxRandomN
    /\ n_threads = N_THREADS
    /\ g = EmptyMap
    /\ state = <<>>
    /\ access_pattern = <<>>
    /\ n_batches = 0
    /\ iter = 0
    /\ th = NoThreads
    /\ cout = <<>>
    /\ i = 0
    /\ j = 0
    /\ n_tries = 0
    /\ g_ret = EmptyMap
    /\ n_updates = <<>>
    /\ call = NoCall

RandomNext ==
    \/ GenerateRandomInit
    \/ GenerateRandomFor
    \/ GenerateRandomWhile

RandomSpec == RandomInit /\ [][RandomNext]_vars

------------------------------------------------------------------------------
(* Generate2DIsingModelGraph alone, for every N up to MaxLength squared.    *)

MaxLength == 4

LatticeInit ==
    /\ pc = "g2d_check"
    /\ n \in 0..(MaxLength * MaxLength)
    /\ n_threads = N_THREADS
    /\ g = EmptyMap
    /\ state = <<>>
    /\ access_pattern = <<>>
    /\ n_batches = 0
    /\ iter = 0
    /\ th = NoThreads
    /\ cout = <<>>
    /\ i = 0
    /\ j = 0
    /\ n_tries = 0
    /\ g_ret = EmptyMap
    /\ n_updates = <<>>
    /\ call = NoCall

LatticeNext ==
    \/ Generate2DCheck
    \/ Generate2DInit
    \/ Generate2DConnect

LatticeSpec == LatticeInit /\ [][LatticeNext]_vars

------------------------------------------------------------------------------
(* PartitionDatapointsForHogwild alone, on an empty pattern, for every N    *)
(* up to MaxPartitionN and every N_THREADS from 1 to MaxPartitionThreads.   *)

MaxPartitionN == 7
MaxPartitionThreads == 4

PartitionInit ==
    /\ pc = "partition"
    /\ n \in 0..MaxPartitionN
    /\ n_threads \in 1..MaxPartitionThreads
    /\ g = EmptyMap
    /\ state = <<>>
    /\ access_pattern = [t \in 1..n_threads |-> <<>>]
    /\ n_batches = 0
    /\ iter = 0
    /\ th = NoThreads
    /\ cout = <<>>
    /\ i = 0
    /\ j = 0
    /\ n_tries = 0
    /\ g_ret = EmptyMap
    /\ n_updates = <<>>
    /\ call = NoCall

PartitionNext == Partition

PartitionSpec == PartitionInit /\ [][PartitionNext]_vars

------------------------------------------------------------------------------
(* UpdateState alone: direct calls on the lattice, from every +1/-1 state,  *)
(* for every index and every draw.                                          *)

SpinStates(nn) == [0..(nn - 1) -> {1, -1}]

UpdateStateCall ==
    /\ pc = "update"
    /\ \E index \in 0..(n - 1), r \in Draws :
          /\ g' = MapIndex(g, index)
          /\ state' = UpdateState(g, state, index, r)
          /\ call' = [index |-> index, r |-> r, before |-> state]
    /\ pc' = "updated"
    /\ cout' = <<>>
    /\ UNCHANGED <<n, n_threads, access_pattern, n_batches, iter, th, i, j,
                   n_tries, g_ret, n_updates>>

UpdateInit ==
    /\ pc = "update"
    /\ n = N
    /\ n_threads = N_THREADS
    /\ g = Generate2DIsingModelGraph(N)
    /\ state \in SpinStates(N)
    /\ access_pattern = <<>>
    /\ n_batches = 0
    /\ iter = 0
    /\ th = NoThreads
    /\ cout = <<>>
    /\ i = 0
    /\ j = 0
    /\ n_tries = 0
    /\ g_ret = g
    /\ n_updates = <<>>
    /\ call = NoCall

UpdateNext == UpdateStateCall

UpdateSpec == UpdateInit /\ [][UpdateNext]_vars

------------------------------------------------------------------------------
(* The loop of main entered with an arbitrary vector<int>: the entries of   *)
(* `state` range over -1, 0 (the value vector<int>(N) starts with) and 1.   *)
(* PrintStateCall is the head of an iteration that prints with PrintState.  *)

PrintStateCall ==
    /\ pc = "loop"
    /\ iter < N_ITERATIONS
    /\ LET r == PrintState(state)
       IN  /\ cout' = r.out
           /\ IF r.exit
              THEN /\ pc' = "exit"
                   /\ th' = th
              ELSE /\ pc' = "sweep"
                   /\ th' = [t \in 0..(n_threads - 1) |->
                               ThreadAt(Seek(access_pattern, n_batches, t, 0, 0))]
    /\ UNCHANGED <<n, n_threads, g, state, access_pattern, n_batches, iter,
                   i, j, n_tries, g_ret, n_updates, call>>

PrintInit ==
    /\ pc = "loop"
    /\ n = N
    /\ n_threads = N_THREADS
    /\ g = Generate2DIsingModelGraph(N)
    /\ state \in [0..(N - 1) -> {-1, 0, 1}]
    /\ access_pattern = PartitionDatapointsForHogwild(N, N_THREADS)
    /\ n_batches = 1
    /\ iter = 0
    /\ th = NoThreads
    /\ cout = <<>>
    /\ i = 0
    /\ j = 0
    /\ n_tries = 0
    /\ g_ret = g
    /\ n_updates = [v \in 0..(N - 1) |-> 0]
    /\ call = NoCall

PrintNext ==
    \/ Iterate
    \/ PrintStateCall
    \/ \E t \in Threads : ReadNeighbor(t)
    \/ \E t \in Threads : WriteState(t)
    \/ Join

PrintSpec == PrintInit /\ [][PrintNext]_vars

------------------------------------------------------------------------------
(* Properties.                                                              *)

Vertices == 0..(n - 1)

Count(seq, x) == Cardinality({k \in 1..Len(seq) : seq[k] = x})

Range(seq) == {seq[k] : k \in 1..Len(seq)}

RECURSIVE SumSpins(_, _)
\* The sum of st over the entries of the sequence seq.
SumSpins(st, seq) ==
    IF seq = <<>> THEN 0 ELSE st[Head(seq)] + SumSpins(st, Tail(seq))

Malformed(st) == \E k \in DOMAIN st : st[k] \notin {1, -1}

AfterGenerateIsingState == {"partition", "loop", "sweep", "done"}

\* C1: from the return of GenerateIsingState on, through every sweep and
\* every interleaving of the threads, state has the N entries 0..N-1 and
\* each of them is +1 or -1.
C1_SpinsArePlusOrMinusOne ==
    pc \in AfterGenerateIsingState =>
        /\ DOMAIN state = 0..(N - 1)
        /\ \A k \in 0..(N - 1) : state[k] \in {1, -1}

\* Both threads are inside UpdateState in a later sweep, and the state holds
\* both spins.
C1_Witness ==
    /\ pc = "sweep"
    /\ iter >= 1
    /\ \A t \in Threads : Running(t) /\ th[t].i > 0
    /\ \E k \in DOMAIN state : state[k] = 1
    /\ \E k \in DOMAIN state : state[k] = -1

\* C2: PartitionDatapointsForHogwild leaves exactly N_THREADS lists of one
\* batch each and returns 1; every entry is a vertex 0..N-1, and every vertex
\* occurs exactly once over all the lists, so no two threads share a vertex.
C2_PartitionIsExact ==
    pc = "loop" =>
        /\ n_batches = 1
        /\ Len(access_pattern) = n_threads
        /\ \A t \in 1..n_threads :
              /\ Len(access_pattern[t]) = 1
              /\ Range(access_pattern[t][1]) \subseteq Vertices
        /\ \A v \in Vertices :
              Cardinality({tk \in {<<t, k>> : t \in 1..n_threads, k \in 1..n} :
                              /\ tk[2] <= Len(access_pattern[tk[1]][1])
                              /\ access_pattern[tk[1]][1][tk[2]] = v}) = 1

\* During a sweep no two running threads are at the same vertex.
C2_DisjointWrites ==
    pc = "sweep" =>
        \A t \in Threads, u \in Threads :
            (t # u /\ Running(t) /\ Running(u)) =>
                index_to_update(t) # index_to_update(u)

\* The function returned for several threads and an N they do not divide.
C2_Witness ==
    /\ pc = "loop"
    /\ n_threads >= 2
    /\ n > n_threads
    /\ n % n_threads # 0

\* C3: every sweep calls UpdateState exactly once for every vertex: between
\* sweeps (and at the end, after N_ITERATIONS of them) every vertex has been
\* resampled exactly iter times, and inside a sweep iter or iter + 1 times,
\* iter + 1 for all once every thread is through.
C3_OncePerVertexPerSweep ==
    /\ pc \in {"loop", "done"} => \A v \in Vertices : n_updates[v] = iter
    /\ pc = "sweep" =>
          /\ \A v \in Vertices : n_updates[v] \in {iter, iter + 1}
          /\ AllJoined => \A v \in Vertices : n_updates[v] = iter + 1
    /\ pc = "done" => iter = N_ITERATIONS

C3_Witness ==
    /\ pc = "done"
    /\ iter = N_ITERATIONS
    /\ iter >= 2
    /\ \A v \in Vertices : n_updates[v] = N_ITERATIONS

\* C4: the spin a call UpdateState(g, state, index) stores is the one the
\* draw selects for the sum of the neighbours' spins, and it is the same
\* from every state that agrees with the call's on the neighbours of index,
\* whatever the spins of index itself and of the other vertices.
C4_NeighboursAndDrawDecide ==
    call # NoCall =>
        LET index == call.index
            sum == SumSpins(call.before, g[index])
            free == Vertices \ Range(g[index])
        IN  /\ state[index] = Select(sum, -sum, call.r)
            /\ \A flipped \in SUBSET free :
                  LET other == [v \in Vertices |->
                                  IF v \in flipped THEN -call.before[v]
                                  ELSE call.before[v]]
                  IN  UpdateState(g, other, index, call.r)[index] = state[index]

\* A call that flipped the spin of a vertex with two neighbours of opposite
\* spins.
C4_Witness ==
    /\ call # NoCall
    /\ Len(g[call.index]) >= 2
    /\ state[call.index] # call.before[call.index]
    /\ \E u \in Range(g[call.index]), w \in Range(g[call.index]) :
          call.before[u] # call.before[w]

\* A step of a sweep changes nothing of g, and changes state only at the
\* index the one stepping thread is updating.
C5_StepFrame ==
    pc = "sweep" =>
        /\ g' = g
        /\ DOMAIN state' = DOMAIN state
        /\ \A k \in DOMAIN state :
              state'[k] # state[k] =>
                  \E t \in Threads :
                      /\ Running(t)
                      /\ index_to_update(t) = k
                      /\ th'[t] # th[t]
                      /\ \A u \in Threads \ {t} : th'[u] = th[u]

\* C5: the steps of a sweep change nothing of g and change state only at the
\* index the stepping thread is updating; from the return of the generator
\* on, g is the graph that was returned, with the keys 0..N-1.
C5_GraphIsFixed ==
    /\ [](pc \in {"g2d_done", "gen_state"} \cup AfterGenerateIsingState =>
             g = g_ret /\ DOMAIN g = 0..(N - 1))
    /\ [][C5_StepFrame]_vars

C5_Witness ==
    /\ pc = "done"
    /\ g = g_ret
    /\ \A v \in Vertices : n_updates[v] >= 2 /\ Len(g[v]) >= 2

\* The vertex thread t reads next, when it is inside the loop of UpdateState.
Reading(t) == Running(t) /\ th[t].i < Len(g[index_to_update(t)])

NextRead(t) == g[index_to_update(t)][th[t].i + 1]

InPartition(t, v) == \E b \in 1..Len(access_pattern[t + 1]) :
                        v \in Range(access_pattern[t + 1][b])

ResampledThisSweep(v) == n_updates[v] = iter + 1

\* C6: within a sweep every thread resamples the vertices of its partition
\* in increasing index order: its list is strictly increasing and the
\* vertices it has resampled in this sweep are the ones before its position.
C6_ThreadOrder ==
    pc = "sweep" =>
        \A t \in Threads :
            LET p == access_pattern[t + 1][1]
                through == IF Running(t) THEN th[t].to_update ELSE Len(p)
            IN  /\ \A k \in 1..Len(p) :
                      ResampledThisSweep(p[k]) <=> k <= through
                /\ \A k \in 1..(Len(p) - 1) : p[k] < p[k + 1]

\* A thread about to read a neighbour that another thread has already
\* resampled in this sweep.
C6_ReadsAfter(t) ==
    /\ Reading(t)
    /\ ~InPartition(t, NextRead(t))
    /\ ResampledThisSweep(NextRead(t))

\* A thread about to read a neighbour that another thread has yet to
\* resample in this sweep.
C6_ReadsBefore(t) ==
    /\ Reading(t)
    /\ ~InPartition(t, NextRead(t))
    /\ ~ResampledThisSweep(NextRead(t))

\* No order between the threads: in one state one thread reads a foreign
\* neighbour after its resampling and another reads one before.
C6_Witness ==
    /\ pc = "sweep"
    /\ \E t \in Threads, u \in Threads : C6_ReadsAfter(t) /\ C6_ReadsBefore(u)

\* No step starts after an exit, and the head of an iteration that finds a
\* malformed state exits with the message and touches nothing else.
C7_Step ==
    /\ pc # "exit"
    /\ (pc = "loop" /\ iter < N_ITERATIONS /\ Malformed(state)) =>
          /\ pc' = "exit"
          /\ cout' = <<ErrState>>
          /\ state' = state
          /\ th' = th
          /\ n_updates' = n_updates

\* C7: a print that meets an entry that is neither 1 nor -1 writes
\* "Something went wrong..." and exits, leaving state and every thread as
\* they were; and no step is taken after an exit.
C7_MalformedStateExits == [][C7_Step]_vars

C7_Witness ==
    /\ pc = "exit"
    /\ cout = <<ErrState>>
    /\ Malformed(state)
    /\ \E k \in DOMAIN state : state[k] = 1

\* C8: at every step of GenerateRandomIsingModelGraph and in the graph it
\* returns, by either return, every adjacency list has at most DELTA entries,
\* none holds its own vertex, every entry is a vertex, and v occurs in g[u]
\* as often as u occurs in g[v].
C8_RandomGraphBounded ==
    /\ \A u \in DOMAIN g :
          /\ Len(g[u]) <= DELTA
          /\ u \notin Range(g[u])
          /\ Range(g[u]) \subseteq DOMAIN g
          /\ \A v \in DOMAIN g : Count(g[u], v) = Count(g[v], u)
    /\ pc \in {"gr_for", "gr_while", "gr_done"} => DOMAIN g = Vertices
    /\ pc = "gr_done" => g_ret = g

\* Returned through the retry limit with one vertex full and another not.
C8_Witness ==
    /\ pc = "gr_done"
    /\ n_tries > MAX_EDGE_INSERTION_TRIES(n)
    /\ \E u \in DOMAIN g : Len(g[u]) = DELTA
    /\ \E u \in DOMAIN g : Len(g[u]) > 0 /\ Len(g[u]) < DELTA

\* Returned through the MAX_EDGES limit, with every vertex full.
C8_ReturnedAtMaxEdges ==
    /\ pc = "gr_done"
    /\ i = MAX_EDGES(n)
    /\ \A u \in DOMAIN g : Len(g[u]) = DELTA

\* The cells next to v in a lattice of side length, without wrap-around.
LatticeNeighbors(length, v) ==
    {u \in 0..(length * length - 1) :
        LET dr == (u \div length) - (v \div length)
            dc == (u % length) - (v % length)
        IN  dr * dr + dc * dc = 1}

OnBorder(length, v) ==
    \/ (v \div length) \in {0, length - 1}
    \/ (v % length) \in {0, length - 1}

IsCorner(length, v) ==
    /\ (v \div length) \in {0, length - 1}
    /\ (v % length) \in {0, length - 1}

\* C9: for N = L * L the graph Generate2DIsingModelGraph returns has the keys
\* 0..N-1 and lists for every vertex exactly its in-bounds lattice
\* neighbours, each once; so it is symmetric, without self-loop or duplicate,
\* with degrees 0..4: 2 at the corners when L >= 2, and 3 on the rest of the
\* border and 4 inside when L >= 3.
C9_LatticeAdjacency ==
    pc = "g2d_done" =>
        LET length == Isqrt(n)
        IN  /\ n = length * length
            /\ g_ret = g
            /\ DOMAIN g = Vertices
            /\ \A v \in Vertices :
                  /\ \A u \in Vertices :
                        Count(g[v], u) =
                            IF u \in LatticeNeighbors(length, v) THEN 1 ELSE 0
                  /\ Range(g[v]) \subseteq Vertices
                  /\ v \notin Range(g[v])
                  /\ \A u \in Vertices : Count(g[v], u) = Count(g[u], v)
                  /\ Len(g[v]) \in 0..4
                  /\ length >= 2 /\ IsCorner(length, v) => Len(g[v]) = 2
                  /\ length >= 3 /\ OnBorder(length, v) /\ ~IsCorner(length, v)
                        => Len(g[v]) = 3
                  /\ length >= 3 /\ ~OnBorder(length, v) => Len(g[v]) = 4

\* A returned lattice with corners, border cells and inner cells.
C9_Witness ==
    /\ pc = "g2d_done"
    /\ Isqrt(n) >= 3
    /\ \E v \in Vertices : Len(g[v]) = 4
    /\ \E v \in Vertices : Len(g[v]) = 3
    /\ \E v \in Vertices : Len(g[v]) = 2

\* What Print2DState writes for a +1/-1 state: per row its cells, 1 for +1
\* and 0 for -1, then a line break.
Picture(st, length) ==
    [p \in 1..(length * (length + 1)) |->
        IF p % (length + 1) = 0
        THEN "\n"
        ELSE IF st[((p - 1) \div (length + 1)) * length + ((p - 1) % (length + 1))] = 1
        THEN "1"
        ELSE "0"]

\* C10: threads run only inside a sweep; the print at the head of iteration
\* iter happens with every vertex resampled exactly iter times (every thread
\* of the sweeps before it through) and shows the state as it is then; and
\* after the last sweep the loop ends without a print.
C10_SweepsDoNotOverlap ==
    /\ pc # "sweep" => th = NoThreads
    /\ pc = "sweep" => \A v \in Vertices : n_updates[v] \in {iter, iter + 1}
    /\ pc = "sweep" /\ cout # <<>> =>
          /\ iter < N_ITERATIONS
          /\ \A v \in Vertices : n_updates[v] = iter
          /\ \A t \in Threads : th[t].to_update = 0 /\ th[t].i = 0
          /\ cout = <<ClearScreen, Picture(state, Isqrt(n))>>
    /\ pc = "done" =>
          /\ iter = N_ITERATIONS
          /\ cout = <<>>
          /\ \A v \in Vertices : n_updates[v] = N_ITERATIONS

\* The print at the head of a later iteration, of a state with both spins.
C10_Witness ==
    /\ pc = "sweep"
    /\ cout # <<>>
    /\ iter >= 1
    /\ \E k \in DOMAIN state : state[k] = 1
    /\ \E k \in DOMAIN state : state[k] = -1

====
